---- MODULE Spec2Model ----
(***************************************************************************)
(* Folder Tree Viewer (src/crawler.py): the recursive filesystem scan that *)
(* fills the QStandardItemModel, the check-state cascade of                *)
(* handle_item_changed, the recursive filter of FolderFilterProxyModel and *)
(* the text generation of copy_tree_to_clipboard.                          *)
(*                                                                         *)
(* Strings are sequences of one-character strings, so that substring       *)
(* search, lower-casing, comparison and concatenation are computed.  The   *)
(* four box-drawing characters are not ASCII and are written as the tokens *)
(* "BOX_VR" (U+251C), "BOX_UR" (U+2514), "BOX_H" (U+2500), "BOX_V"         *)
(* (U+2502); each token stands for one character.                          *)
(***************************************************************************)
EXTENDS Integers, Sequences, FiniteSets, TLC

(***************************************************************************)
(* Characters and strings                                                  *)
(***************************************************************************)
UpperCase == <<"A","B","C","D","E","F","G","H","I","J","K","L","M",
               "N","O","P","Q","R","S","T","U","V","W","X","Y","Z">>

LowerCase == <<"a","b","c","d","e","f","g","h","i","j","k","l","m",
               "n","o","p","q","r","s","t","u","v","w","x","y","z">>

\* str.lower() on one character of the alphabet the model uses.
LowerChar(c) ==
    IF \E i \in 1..Len(UpperCase) : UpperCase[i] = c
    THEN LowerCase[CHOOSE i \in 1..Len(UpperCase) : UpperCase[i] = c]
    ELSE c

\* str.lower()
Lower(s) == [i \in 1..Len(s) |-> LowerChar(s[i])]

\* The code point of a character, for the comparison of the sort keys.
CodePoint(c) ==
    IF \E i \in 1..Len(UpperCase) : UpperCase[i] = c
    THEN 64 + (CHOOSE i \in 1..Len(UpperCase) : UpperCase[i] = c)
    ELSE IF \E i \in 1..Len(LowerCase) : LowerCase[i] = c
    THEN 96 + (CHOOSE i \in 1..Len(LowerCase) : LowerCase[i] = c)
    ELSE IF c = " " THEN 32
    ELSE IF c = "-" THEN 45
    ELSE IF c = "." THEN 46
    ELSE IF c = "[" THEN 91
    ELSE 93

\* Python's s < t on strings: lexicographic by code point, a proper prefix
\* is smaller.
RECURSIVE StrLess(_, _)
StrLess(s, t) ==
    IF t = <<>> THEN FALSE
    ELSE IF s = <<>> THEN TRUE
    ELSE IF CodePoint(Head(s)) # CodePoint(Head(t))
         THEN CodePoint(Head(s)) < CodePoint(Head(t))
         ELSE StrLess(Tail(s), Tail(t))

\* Python's `q in s` on strings.
Contains(s, q) ==
    \E i \in 1..(Len(s) - Len(q) + 1) : SubSeq(s, i, i + Len(q) - 1) = q

\* The literals of add_folder_item_recursive.
AccessErrorSuffix ==
    <<" ","[","A","c","c","e","s","s"," ","E","r","r","o","r","]">>

OSErrorSuffix == <<" ","[","O","S"," ","E","r","r","o","r","]">>

PermDeniedText ==
    <<"[","C","o","n","t","e","n","t","s"," ","H","i","d","d","e","n"," ",
      "-"," ","P","e","r","m","i","s","s","i","o","n"," ",
      "D","e","n","i","e","d","]">>

ScanErrorText ==
    <<"[","E","r","r","o","r"," ","S","c","a","n","n","i","n","g"," ",
      "C","o","n","t","e","n","t","s","]">>

\* The literals of generate_text_recursive_v2.
ConnectorLast == <<"BOX_UR", "BOX_H", " ">>

ConnectorMid == <<"BOX_VR", "BOX_H", " ">>

PrefixLast == <<" ", " ", " ">>

PrefixMid == <<"BOX_V", " ", " ">>

(***************************************************************************)
(* The filesystem the scan reads.  A filesystem is drawn from a fixed      *)
(* skeleton of seven paths: the chosen root top/ with the directories sub/ *)
(* and Zed/ and the files a.txt and b.txt, and the files sub/c.txt and     *)
(* Zed/E.c.  Every path but the root may be absent (an absent root is a    *)
(* root whose os.stat fails), and at most MaxFailures of the system calls  *)
(* made on the present paths fail.                                         *)
(***************************************************************************)
MaxFailures == 1

Root == 1

Slots == 1..7

SlotName ==
    <<  <<"t","o","p">>,
        <<"s","u","b">>,
        <<"a",".","t","x","t">>,
        <<"b",".","t","x","t">>,
        <<"c",".","t","x","t">>,
        <<"Z","e","d">>,
        <<"E",".","c">>  >>

\* The directory that holds each path (0 for the root).
SlotParent == <<0, 1, 1, 1, 2, 1, 6>>

SlotIsDir == <<TRUE, TRUE, FALSE, FALSE, FALSE, TRUE, FALSE>>

\* The sets of paths that can be present together: the root, and no path
\* without the directory that holds it.
Presences ==
    { P \in SUBSET Slots :
        /\ Root \in P
        /\ \A s \in P \ {Root} : SlotParent[s] \in P }

\* The system calls the scan makes on the paths P, each of which can fail:
\* entry.stat() on an entry (line 422), os.stat() on a directory (line 396),
\* os.scandir() on a directory (line 419) with PermissionError or with
\* another OSError.
FailurePoints(P) ==
    {<<"entry_stat", s>> : s \in P \ {Root}}
    \cup {<<"stat", s>> : s \in {d \in P : SlotIsDir[d]}}
    \cup {<<"PermissionError", s>> : s \in {d \in P : SlotIsDir[d]}}
    \cup {<<"OSError", s>> : s \in {d \in P : SlotIsDir[d]}}

MakeFS(P, F) ==
    [s \in Slots |->
        [present       |-> s \in P,
         entry_stat_ok |-> <<"entry_stat", s>> \notin F,
         stat_ok       |-> <<"stat", s>> \notin F,
         scandir       |-> IF <<"PermissionError", s>> \in F
                           THEN "PermissionError"
                           ELSE IF <<"OSError", s>> \in F THEN "OSError"
                           ELSE "ok"]]

FileSystems ==
    UNION { { MakeFS(P, F) :
                F \in { G \in SUBSET FailurePoints(P) :
                          /\ Cardinality(G) <= MaxFailures
                          /\ \A s \in Slots :
                                ~ ( <<"PermissionError", s>> \in G
                                    /\ <<"OSError", s>> \in G ) } } :
            P \in Presences }

\* The entries os.scandir(d) yields in filesystem f.
Entries(f, d) ==
    {s \in Slots : SlotParent[s] = d /\ f[s].present}

\* The sort key of line 419: (not e.is_dir(), e.name.lower()).
KeyLess(x, y) ==
    \/ SlotIsDir[x] /\ ~SlotIsDir[y]
    \/ /\ SlotIsDir[x] = SlotIsDir[y]
       /\ StrLess(Lower(SlotName[x]), Lower(SlotName[y]))

\* sorted(entries, key=...)
RECURSIVE SortedEntries(_)
SortedEntries(S) ==
    IF S = {} THEN <<>>
    ELSE LET m == CHOOSE x \in S : \A y \in S \ {x} : ~KeyLess(y, x)
         IN  <<m>> \o SortedEntries(S \ {m})

(***************************************************************************)
(* The QStandardItemModel.  A model is a function from the positions of    *)
(* its column-0 items to the items; a position is the sequence of row      *)
(* numbers (from 1) that leads from the invisible root, <<>>, to the item. *)
(* An item carries its text, its checkable flag, its check state, the data *)
(* of FULL_PATH_ROLE (0 when the code never sets it), and, as bookkeeping  *)
(* of the scan, the branch that built it (kind) and the path it was built  *)
(* for (of).                                                               *)
(***************************************************************************)
NoPath == 0

InvisibleRoot == <<>>

\* A QStandardItem as the scan leaves it: setCheckable(True) is always
\* followed by setCheckState(Checked); an item never made checkable keeps
\* the default state Unchecked.
NewItem(text, checkable, full_path, kind, of) ==
    [text      |-> text,
     checkable |-> checkable,
     checked   |-> checkable,
     full_path |-> full_path,
     kind      |-> kind,
     of        |-> of]

RECURSIVE AddFolderItemRecursive(_, _, _)
RECURSIVE ScanContents(_, _, _)
RECURSIVE EntryRows(_, _, _)

\* add_folder_item_recursive(current_path, parent_item), where pos is the
\* row that parent_item.appendRow gives the new item.  The result is the
\* set of the rows the call appends, each with its position.
AddFolderItemRecursive(f, current_path, pos) ==
    IF ~f[current_path].stat_ok
    THEN \* lines 406-415: the stat of the folder itself failed
         { [pos  |-> pos,
            item |-> NewItem(SlotName[current_path] \o AccessErrorSuffix,
                             FALSE, NoPath, "access_error", current_path)] }
    ELSE \* lines 396-404, then the scan of the contents
         { [pos  |-> pos,
            item |-> NewItem(SlotName[current_path], TRUE, current_path,
                             "folder", current_path)] }
         \cup ScanContents(f, current_path, pos)

\* The scan of the contents without the handlers of lines 455-470: a
\* failing os.scandir leaves the folder item without any row.
ScanContentsNoMarker(f, current_path, pos) ==
    IF f[current_path].scandir # "ok" THEN {}
    ELSE LET entries == SortedEntries(Entries(f, current_path))
         IN  UNION { EntryRows(f, entries[i], pos \o <<i>>) :
                       i \in 1..Len(entries) }

\* The scan of the contents without the inner handler of line 447: the
\* OSError of entry.stat() ends the loop and reaches the handler of line
\* 465, which appends its marker after the rows built so far.
ScanContentsEntryErrorEndsLoop(f, current_path, pos) ==
    IF f[current_path].scandir = "PermissionError"
    THEN { [pos  |-> pos \o <<1>>,
            item |-> NewItem(PermDeniedText, FALSE, NoPath,
                             "perm_denied", current_path)] }
    ELSE IF f[current_path].scandir = "OSError"
    THEN { [pos  |-> pos \o <<1>>,
            item |-> NewItem(ScanErrorText, FALSE, NoPath,
                             "scan_error", current_path)] }
    ELSE LET entries == SortedEntries(Entries(f, current_path))
             failing == {i \in 1..Len(entries) :
                           ~f[entries[i]].entry_stat_ok}
             stop == IF failing = {} THEN Len(entries) + 1
                     ELSE CHOOSE i \in failing : \A j \in failing : i <= j
         IN  UNION { EntryRows(f, entries[i], pos \o <<i>>) :
                       i \in 1..(stop - 1) }
             \cup (IF failing = {} THEN {}
                   ELSE { [pos  |-> pos \o <<stop>>,
                           item |-> NewItem(ScanErrorText, FALSE, NoPath,
                                            "scan_error", current_path)] })

\* Lines 418-470: the rows appended to item_name, the item at pos.
ScanContents(f, current_path, pos) ==
    IF f[current_path].scandir = "PermissionError"
    THEN { [pos  |-> pos \o <<1>>,
            item |-> NewItem(PermDeniedText, FALSE, NoPath,
                             "perm_denied", current_path)] }
    ELSE IF f[current_path].scandir = "OSError"
    THEN { [pos  |-> pos \o <<1>>,
            item |-> NewItem(ScanErrorText, FALSE, NoPath,
                             "scan_error", current_path)] }
    ELSE LET entries == SortedEntries(Entries(f, current_path))
         IN  UNION { EntryRows(f, entries[i], pos \o <<i>>) :
                       i \in 1..Len(entries) }

\* Lines 421-453: one pass of the loop body, for the entry that becomes
\* row epos of item_name.
EntryRows(f, entry, epos) ==
    IF ~f[entry].entry_stat_ok
    THEN \* lines 447-453
         { [pos  |-> epos,
            item |-> NewItem(SlotName[entry] \o OSErrorSuffix, FALSE,
                             NoPath, "os_error", entry)] }
    ELSE IF SlotIsDir[entry]
    THEN \* lines 438-441: the entry's row, then the recursive call, which
         \* appends a row for entry.path to the entry's row
         { [pos  |-> epos,
            item |-> NewItem(SlotName[entry], TRUE, entry,
                             "entry_dir", entry)] }
         \cup AddFolderItemRecursive(f, entry, epos \o <<1>>)
    ELSE \* lines 442-445
         { [pos  |-> epos,
            item |-> NewItem(SlotName[entry], TRUE, entry,
                             "entry_file", entry)] }

\* The model that holds exactly the rows R.
ModelOf(R) ==
    [p \in {r.pos : r \in R} |-> (CHOOSE r \in R : r.pos = p).item]

\* model.clear()
EmptyModel == ModelOf({})

\* QStandardItem.rowCount() of the item at p (of the invisible root for <<>>).
RowCount(model, p) ==
    Cardinality({q \in DOMAIN model :
                   Len(q) = Len(p) + 1 /\ SubSeq(q, 1, Len(p)) = p})

HasChildren(model, p) == RowCount(model, p) > 0

\* q is p or below p.
InSubtree(q, p) == Len(q) >= Len(p) /\ SubSeq(q, 1, Len(p)) = p

Descendants(model, p) ==
    {q \in DOMAIN model : q # p /\ InSubtree(q, p)}

Ancestors(model, p) ==
    {q \in DOMAIN model : q # p /\ InSubtree(p, q)}

(***************************************************************************)
(* Check-state cascade (handle_item_changed, update_children_checkstate).  *)
(* QStandardItem.setCheckState emits itemChanged synchronously, so every   *)
(* state change of the cascade calls the slot again, with the flag         *)
(* _block_item_changed_signal as the cascade has set it.  The slot calls   *)
(* that one change of a check box sets off work on a record w: the model   *)
(* (w.model), the flag (w.block) and, as bookkeeping, the number of check  *)
(* states the cascade has changed (w.changes), of calls that went past     *)
(* line 476 and reached line 485 (w.cascades), of calls that returned at   *)
(* line 476 (w.suppressed), and whether an exception has left the try      *)
(* block (w.raised).  w.fault = k > 0 makes the k-th setCheckState of the  *)
(* cascade raise; w.fault = 0 makes none raise.                             *)
(***************************************************************************)
\* The bound on the setCheckState call that raises.
MaxFault == 2

\* The record on which the slot is entered for a change made by the user.
SlotEntry(model, block, fault) ==
    [model      |-> model,
     block      |-> block,
     fault      |-> fault,
     changes    |-> 0,
     cascades   |-> 0,
     suppressed |-> 0,
     raised     |-> FALSE]

RECURSIVE HandleItemChanged(_, _)
RECURSIVE UpdateChildrenCheckstate(_, _, _)
RECURSIVE UpdateRows(_, _, _, _)
RECURSIVE SetCheckState(_, _, _)

\* handle_item_changed starting the cascade at the parent of the changed
\* item (name_item taken from item.parent() in lines 482-483), so that the
\* siblings of the item follow it.
HandleItemChangedFromParent(w, item) ==
    IF w.block THEN [w EXCEPT !.suppressed = @ + 1]
    ELSE IF ~w.model[item].checkable THEN w
    ELSE IF Len(item) > 1
    THEN [ UpdateChildrenCheckstate(
               [w EXCEPT !.block = TRUE, !.cascades = @ + 1],
               SubSeq(item, 1, Len(item) - 1),
               w.model[item].checked)
           EXCEPT !.block = FALSE ]
    ELSE w

\* handle_item_changed bringing the parent of the changed item to the
\* item's state after the cascade (a parent state derived from the child).
HandleItemChangedSyncParent(w, item) ==
    IF w.block THEN [w EXCEPT !.suppressed = @ + 1]
    ELSE IF ~w.model[item].checkable THEN w
    ELSE [ (IF HasChildren(w.model, item)
            THEN UpdateChildrenCheckstate(
                     [w EXCEPT !.block = TRUE, !.cascades = @ + 1],
                     item, w.model[item].checked)
            ELSE [w EXCEPT !.block = TRUE])
           EXCEPT !.block = FALSE,
                  !.model = IF Len(item) > 1
                            THEN [@ EXCEPT ![SubSeq(item, 1, Len(item) - 1)]
                                             .checked = w.model[item].checked]
                            ELSE @ ]

\* handle_item_changed without the test of line 476: a notification that
\* arrives while a cascade is running starts a cascade of its own.
HandleItemChangedNoGuard(w, item) ==
    IF w.model[item].checkable
    THEN [ (IF HasChildren(w.model, item)
            THEN UpdateChildrenCheckstate(
                     [w EXCEPT !.block = TRUE, !.cascades = @ + 1],
                     item, w.model[item].checked)
            ELSE [w EXCEPT !.block = TRUE])
           EXCEPT !.block = FALSE ]
    ELSE w

\* handle_item_changed(item); the result is the record when the slot
\* returns.  The slot sets the flag for the cascade and clears it in its
\* finally clause, whether the cascade returned or raised.
HandleItemChanged(w, item) ==
    IF w.block THEN [w EXCEPT !.suppressed = @ + 1]
    ELSE IF w.model[item].checkable
    THEN [ (IF HasChildren(w.model, item)
            THEN UpdateChildrenCheckstate(
                     [w EXCEPT !.block = TRUE, !.cascades = @ + 1],
                     item, w.model[item].checked)
            ELSE [w EXCEPT !.block = TRUE])
           EXCEPT !.block = FALSE ]
    ELSE w

\* update_children_checkstate without its recursive call (lines 497-498
\* left out): only the rows directly under parent_name_item are set.
UpdateChildrenOneLevel(w, parent_name_item, state) ==
    [w EXCEPT !.model =
        [p \in DOMAIN w.model |->
            IF /\ Len(p) = Len(parent_name_item) + 1
               /\ InSubtree(p, parent_name_item)
               /\ w.model[p].checkable
            THEN [w.model[p] EXCEPT !.checked = state]
            ELSE w.model[p]]]

\* update_children_checkstate(parent_name_item, state)
UpdateChildrenCheckstate(w, parent_name_item, state) ==
    UpdateRows(w, parent_name_item, state, 1)

\* The loop of update_children_checkstate without the isCheckable test of
\* line 494: every row is brought to the state, error items included.
UpdateRowsAnyItem(w, parent_name_item, state, row) ==
    IF w.raised \/ row > RowCount(w.model, parent_name_item) THEN w
    ELSE LET child == parent_name_item \o <<row>>
             set == IF w.model[child].checked # state
                    THEN SetCheckState(w, child, state)
                    ELSE w
             done == IF ~set.raised /\ HasChildren(set.model, child)
                     THEN UpdateChildrenCheckstate(set, child, state)
                     ELSE set
         IN  UpdateRows(done, parent_name_item, state, row + 1)

\* The loop of update_children_checkstate from row `row` on; an exception
\* ends it.
UpdateRows(w, parent_name_item, state, row) ==
    IF w.raised \/ row > RowCount(w.model, parent_name_item) THEN w
    ELSE LET child == parent_name_item \o <<row>>
             \* lines 495-496
             set == IF w.model[child].checked # state
                    THEN SetCheckState(w, child, state)
                    ELSE w
             \* lines 497-498
             done == IF ~w.model[child].checkable THEN w
                     ELSE IF ~set.raised /\ HasChildren(set.model, child)
                     THEN UpdateChildrenCheckstate(set, child, state)
                     ELSE set
         IN  UpdateRows(done, parent_name_item, state, row + 1)

\* child_name_item.setCheckState(state) of line 496: the state changes and
\* itemChanged calls the slot, unless the call raises.
SetCheckState(w, child, state) ==
    IF w.fault = w.changes + 1
    THEN [w EXCEPT !.raised = TRUE]
    ELSE HandleItemChanged(
             [w EXCEPT !.model[child].checked = state, !.changes = @ + 1],
             child)

(***************************************************************************)
(* FolderFilterProxyModel                                                  *)
(***************************************************************************)
\* set_filter_text(text): the value stored in _filter_text.
SetFilterText(text) == Lower(text)

RECURSIVE FilterAcceptsRow(_, _, _, _)

\* filterAcceptsRow comparing the item text as it is (line 65 without
\* .lower() on item_text).
FilterCaseSensitive(model, filter, source_row, source_parent) ==
    LET source_index == source_parent \o <<source_row>>
    IN  IF filter = <<>> THEN TRUE
        ELSE IF source_index \notin DOMAIN model THEN FALSE
        ELSE IF Contains(model[source_index].text, filter) THEN TRUE
        ELSE \E i \in 1..RowCount(model, source_index) :
                FilterAcceptsRow(model, filter, i, source_index)

\* filterAcceptsRow looking at the texts of the child rows instead of
\* calling itself on them (line 71).
FilterOneLevel(model, filter, source_row, source_parent) ==
    LET source_index == source_parent \o <<source_row>>
        Match(p) == Contains(Lower(model[p].text), filter)
    IN  IF filter = <<>> THEN TRUE
        ELSE IF source_index \notin DOMAIN model THEN FALSE
        ELSE \/ Match(source_index)
             \/ \E i \in 1..RowCount(model, source_index) :
                   Match(source_index \o <<i>>)

\* filterAcceptsRow(source_row, source_parent_index) on the source model
\* `model` with _filter_text = filter.
FilterAcceptsRow(model, filter, source_row, source_parent) ==
    LET source_index == source_parent \o <<source_row>>
    IN  IF filter = <<>> THEN TRUE
        ELSE IF source_index \notin DOMAIN model THEN FALSE
        ELSE IF /\ model[source_index].text # <<>>
                /\ Contains(Lower(model[source_index].text), filter)
        THEN TRUE
        ELSE /\ HasChildren(model, source_index)
             /\ \E i \in 1..RowCount(model, source_index) :
                    FilterAcceptsRow(model, filter, i, source_index)

\* The source rows under `parent` that the filter accepts, from source row
\* `row` on, in source order, each given by its source position.
RECURSIVE ProxyRowsFrom(_, _, _, _)
ProxyRowsFrom(model, filter, parent, row) ==
    IF parent \o <<row>> \notin DOMAIN model THEN <<>>
    ELSE (IF FilterAcceptsRow(model, filter, row, parent)
          THEN << parent \o <<row>> >> ELSE <<>>)
         \o ProxyRowsFrom(model, filter, parent, row + 1)

\* The sort of the proxy model.  tree_view.setSortingEnabled(True) (line
\* 142) makes the view sort its model by the sort indicator of the header,
\* which is column 0 in descending order until the user clicks a header
\* (clicks on the header are not modelled); setModel (line 177) applies it
\* to the proxy model, which keeps its rows sorted from then on.
SortIndicatorOrder == "DescendingOrder"

\* QSortFilterProxyModel.lessThan on two items of column 0: their texts
\* compared as strings, with letter case.
LessThan(model, left, right) == StrLess(model[left].text, model[right].text)

\* `row` comes before `other` in the sorted proxy.
SortsBefore(model, row, other) ==
    IF SortIndicatorOrder = "DescendingOrder"
    THEN LessThan(model, other, row)
    ELSE LessThan(model, row, other)

\* The sorted rows `sorted` with `row` put in, behind the rows it does not
\* sort before (the sort is stable).
RECURSIVE InsertRow(_, _, _)
InsertRow(model, sorted, row) ==
    IF sorted = <<>> THEN <<row>>
    ELSE IF SortsBefore(model, row, Head(sorted)) THEN <<row>> \o sorted
    ELSE <<Head(sorted)>> \o InsertRow(model, Tail(sorted), row)

RECURSIVE SortRows(_, _, _)
SortRows(model, sorted, rows) ==
    IF rows = <<>> THEN sorted
    ELSE SortRows(model, InsertRow(model, sorted, Head(rows)), Tail(rows))

\* The rows of the proxy model under the proxy index of the source item
\* `parent`, row 0 first, each given by its source position (mapToSource).
ProxyRows(model, filter, parent) ==
    SortRows(model, <<>>, ProxyRowsFrom(model, filter, parent, 1))

(***************************************************************************)
(* Text generation (copy_tree_to_clipboard, generate_text_recursive_v2).   *)
(* An output line is kept together with the position of the item that      *)
(* produced it.                                                            *)
(***************************************************************************)
RECURSIVE GenerateTextRecursive(_, _, _, _, _)
RECURSIVE GenerateRows(_, _, _, _, _)

\* generate_text_recursive_v2 without the test of line 531: every row of
\* the proxy model gives a line.
GenerateIgnoringCheckState(model, filter, item, prefix, is_last_sibling) ==
    LET connector == IF is_last_sibling THEN ConnectorLast ELSE ConnectorMid
        prefix_for_children ==
            prefix \o (IF is_last_sibling THEN PrefixLast ELSE PrefixMid)
    IN  << [item |-> item,
            line |-> prefix \o connector \o model[item].text] >>
        \o GenerateRows(model, filter, ProxyRows(model, filter, item),
                        prefix_for_children, 1)

\* generate_text_recursive_v2 with the loop of lines 536-541 outside the
\* test of line 531: an unchecked item gives no line, but its rows are
\* still walked.
GenerateBelowUnchecked(model, filter, item, prefix, is_last_sibling) ==
    LET connector == IF is_last_sibling THEN ConnectorLast ELSE ConnectorMid
        prefix_for_children ==
            prefix \o (IF is_last_sibling THEN PrefixLast ELSE PrefixMid)
    IN  (IF model[item].checkable /\ model[item].checked
         THEN << [item |-> item,
                  line |-> prefix \o connector \o model[item].text] >>
         ELSE <<>>)
        \o GenerateRows(model, filter, ProxyRows(model, filter, item),
                        prefix_for_children, 1)

\* generate_text_recursive_v2(proxy_index, prefix, is_last_sibling, ...) for
\* the proxy index of the source item `item`: the lines it appends.
GenerateTextRecursive(model, filter, item, prefix, is_last_sibling) ==
    IF model[item].checkable /\ model[item].checked
    THEN LET connector == IF is_last_sibling THEN ConnectorLast
                          ELSE ConnectorMid
             prefix_for_children ==
                 prefix \o (IF is_last_sibling THEN PrefixLast ELSE PrefixMid)
         IN  << [item |-> item,
                 line |-> prefix \o connector \o model[item].text] >>
             \o GenerateRows(model, filter,
                             ProxyRows(model, filter, item),
                             prefix_for_children, 1)
    ELSE <<>>

\* The loop over the proxy rows `rows` from row `row` on (lines 537-541, and
\* lines 509-514 for the top level).
GenerateRows(model, filter, rows, prefix, row) ==
    IF row > Len(rows) THEN <<>>
    ELSE GenerateTextRecursive(model, filter, rows[row], prefix,
                               row = Len(rows))
         \o GenerateRows(model, filter, rows, prefix, row + 1)

\* text_lines of copy_tree_to_clipboard when its loop has ended.
TextLines(model, filter) ==
    GenerateRows(model, filter, ProxyRows(model, filter, InvisibleRoot),
                 <<>>, 1)

(***************************************************************************)
(* The window: state and handlers.  Every handler runs to completion on    *)
(* the one GUI thread; `call` records the handler that has just run, until *)
(* control is back in the event loop.                                      *)
(***************************************************************************)
VARIABLES
    fs,                         \* the filesystem under the chosen folder
    items,                      \* self.model
    filter_text,                \* self.proxy_model._filter_text
    block_item_changed_signal,  \* self._block_item_changed_signal
    copy_enabled,               \* self.copy_button.isEnabled()
    current_widget,             \* self.stacked_widget.currentWidget()
    text_lines,                 \* text_lines of copy_tree_to_clipboard,
                                \* each line with the item that produced it
    call                        \* the handler that has just run

vars == <<fs, items, filter_text, block_item_changed_signal, copy_enabled,
          current_widget, text_lines, call>>

\* The texts typed into the filter box.
Queries == { <<>>, <<"c">>, <<"C">>, <<"Z","E">> }

Idle ==
    [op |-> "idle", item |-> <<>>, all_checked |-> FALSE, success |-> FALSE,
     changes |-> 0, cascades |-> 0, suppressed |-> 0, raised |-> FALSE]

\* Every checkable item of the model is checked.
AllChecked(model) ==
    \A p \in DOMAIN model : model[p].checkable => model[p].checked

\* The item at p is a row of the proxy model: the filter accepts it and
\* every item above it.
InProxy(model, filter, p) ==
    \A k \in 1..Len(p) :
        FilterAcceptsRow(model, filter, p[k], SubSeq(p, 1, k - 1))

\* populate_tree(root_folder) in filesystem f: the model it leaves and the
\* value it returns.  add_folder_item_recursive catches Exception around
\* os.stat (line 406) and around the scan of the contents (line 465), so
\* the handler of line 365 is never entered.
PopulateTree(f, root_folder) ==
    [model           |-> ModelOf(AddFolderItemRecursive(f, root_folder, <<1>>)),
     scan_successful |-> TRUE]

\* The filesystems on which whole sessions (scan, check boxes, filter,
\* copy) are explored: those without the second directory Zed/.
SessionFileSystems == {f \in FileSystems : ~f[6].present}

\* The window after __init__.
InitWindow ==
    /\ items = EmptyModel
    /\ filter_text = <<>>
    /\ block_item_changed_signal = FALSE
    /\ copy_enabled = FALSE
    /\ current_widget = "intro"
    /\ text_lines = <<>>
    /\ call = Idle

Init == fs \in SessionFileSystems /\ InitWindow

\* select_folder, the dialog having returned the root folder: the filter
\* box is cleared, the tree is rebuilt, the view is switched.
select_folder ==
    /\ call.op = "idle"
    /\ \E scan \in {PopulateTree(fs, Root)} :
           /\ filter_text' = SetFilterText(<<>>)
           /\ items' = scan.model
           /\ copy_enabled' = scan.scan_successful
           /\ current_widget' = IF scan.scan_successful THEN "tree"
                                 ELSE "intro"
           /\ call' = [Idle EXCEPT !.op = "select_folder",
                                   !.success = scan.scan_successful]
    /\ UNCHANGED <<fs, block_item_changed_signal, text_lines>>

\* The user toggles the check box of a row of the tree view: the item's
\* check state flips and itemChanged calls handle_item_changed(item).
set_checked(item, fault) ==
    /\ call.op = "idle"
    /\ current_widget = "tree"
    /\ item \in DOMAIN items
    /\ items[item].checkable
    /\ InProxy(items, filter_text, item)
    /\ \E w \in { HandleItemChanged(
                      SlotEntry([items EXCEPT ![item].checked =
                                                 ~items[item].checked],
                                block_item_changed_signal, fault),
                      item) } :
           /\ items' = w.model
           /\ block_item_changed_signal' = w.block
           /\ call' = [Idle EXCEPT !.op = "handle_item_changed",
                                   !.item = item,
                                   !.all_checked = AllChecked(items),
                                   !.changes = w.changes,
                                   !.cascades = w.cascades,
                                   !.suppressed = w.suppressed,
                                   !.raised = w.raised]
    /\ UNCHANGED <<fs, filter_text, copy_enabled, current_widget,
                   text_lines>>

\* search_edit.textChanged -> proxy_model.set_filter_text(text)
set_filter_text(text) ==
    /\ call.op = "idle"
    /\ SetFilterText(text) # filter_text
    /\ filter_text' = SetFilterText(text)
    /\ call' = [Idle EXCEPT !.op = "set_filter_text"]
    /\ UNCHANGED <<fs, items, block_item_changed_signal, copy_enabled,
                   current_widget, text_lines>>

\* copy_button.clicked -> copy_tree_to_clipboard()
copy_tree_to_clipboard ==
    /\ call.op = "idle"
    /\ copy_enabled
    /\ text_lines' = TextLines(items, filter_text)
    /\ call' = [Idle EXCEPT !.op = "copy_tree_to_clipboard",
                            !.all_checked = AllChecked(items)]
    /\ UNCHANGED <<fs, items, filter_text, block_item_changed_signal,
                   copy_enabled, current_widget>>

\* The handler returns to the event loop; its locals are gone.
return_to_event_loop ==
    /\ call.op # "idle"
    /\ call' = Idle
    /\ text_lines' = <<>>
    /\ UNCHANGED <<fs, items, filter_text, block_item_changed_signal,
                   copy_enabled, current_widget>>

Next ==
    \/ select_folder
    \/ \E item \in DOMAIN items : \E fault \in 0..MaxFault :
          set_checked(item, fault)
    \/ \E text \in Queries : set_filter_text(text)
    \/ copy_tree_to_clipboard
    \/ return_to_event_loop

Spec == Init /\ [][Next]_vars

\* The scan alone, on every filesystem of the skeleton.
ScanInit == fs \in FileSystems /\ InitWindow

ScanNext ==
    \/ select_folder
    \/ return_to_event_loop

ScanSpec == ScanInit /\ [][ScanNext]_vars

(***************************************************************************)
(* Properties                                                              *)
(***************************************************************************)
\* The strings of text_lines.
Lines == [i \in 1..Len(text_lines) |-> text_lines[i].line]

\* The items that produced a line of text_lines.
Emitted == {text_lines[i].item : i \in 1..Len(text_lines)}

\* The filesystem of the round-trip example: top/ holding a.txt, b.txt and
\* sub/c.txt, every system call succeeding.
ExampleFS == MakeFS({1, 2, 3, 4, 5}, {})

ExampleLines ==
    <<  <<"BOX_VR", "BOX_H", " ", "s", "u", "b">>,
        <<"BOX_V", " ", " ", "BOX_UR", "BOX_H", " ", "c", ".", "t", "x", "t">>,
        <<"BOX_VR", "BOX_H", " ", "a", ".", "t", "x", "t">>,
        <<"BOX_UR", "BOX_H", " ", "b", ".", "t", "x", "t">>  >>

\* C1: the example directory (a.txt, b.txt, sub/c.txt), scanned and copied
\* with every item checked and an empty filter, gives exactly the four
\* lines of ExampleLines, one per entry below the root.
C1_RoundTripFourLines ==
    ( /\ call.op = "copy_tree_to_clipboard"
      /\ fs = ExampleFS
      /\ call.all_checked
      /\ filter_text = <<>> )
    => Lines = ExampleLines

\* C2: when os.stat of the chosen root fails, populate_tree leaves an empty
\* model and returns 'not successful'.
C2_RootFailureNoTree ==
    (call.op = "select_folder" /\ ~fs[Root].stat_ok)
    => (items = EmptyModel /\ ~call.success)

\* C3: after the check box of an item n has been set to v and the cascade
\* has returned, every checkable item below n, at any depth, has check
\* state v (so unchecking the root leaves every checkable item below it
\* unchecked).
C3_CascadeReachesEveryDescendant ==
    (call.op = "handle_item_changed" /\ ~call.raised)
    => \A d \in Descendants(items, call.item) :
          items[d].checkable
          => items[d].checked = items[call.item].checked

\* The root item has just been unchecked, from a state in which some items
\* were checked and some not, above a checkable item three levels down.
C3_Witness ==
    /\ call.op = "handle_item_changed"
    /\ ~call.raised
    /\ call.item = <<1>>
    /\ ~items[<<1>>].checked
    /\ ~call.all_checked
    /\ \E d \in Descendants(items, <<1>>) :
          Len(d) = 4 /\ items[d].checkable
    /\ \E d \in Descendants(items, <<1>>) : ~items[d].checkable

\* The text s contains q when letter case is ignored.
ContainsIgnoringCase(s, q) ==
    \E i \in 1..(Len(s) - Len(q) + 1) :
        \A j \in 1..Len(q) : LowerChar(s[i + j - 1]) = LowerChar(q[j])

\* is_visible(n, q): what filterAcceptsRow answers for the item at p once
\* the text q has been typed into the filter box.
IsVisible(p, q) ==
    FilterAcceptsRow(items, SetFilterText(q), p[Len(p)],
                     SubSeq(p, 1, Len(p) - 1))

\* The items built for the path s of the filesystem.
ItemsOf(s) == {p \in DOMAIN items : items[p].of = s}

\* The queries the filter is probed with: the texts of Queries and some
\* that match several items, part of an error text, or nothing.
ProbeQueries ==
    Queries \cup { <<"s","u","b">>, <<".","T">>, <<"E","R","R">>,
                   <<"b">>, <<"q">> }

\* C4: an item is visible under a query q exactly when q is empty, or its
\* text contains q ignoring case, or the text of some item below it, at
\* any depth, does; on the example tree the query "c" shows sub and c.txt
\* and hides a.txt and b.txt.  (The texts and the shape of the tree change
\* only in a scan, so every tree is looked at as the scan leaves it.)
C4_VisibleIffSelfOrDescendantMatches ==
    call.op = "select_folder"
    => /\ \A p \in DOMAIN items : \A q \in ProbeQueries :
             IsVisible(p, q)
             <=> \/ q = <<>>
                 \/ ContainsIgnoringCase(items[p].text, q)
                 \/ \E d \in Descendants(items, p) :
                       ContainsIgnoringCase(items[d].text, q)
       /\ fs = ExampleFS
          => /\ \A p \in ItemsOf(2) \cup ItemsOf(5) : IsVisible(p, <<"c">>)
             /\ \A p \in ItemsOf(3) \cup ItemsOf(4) : ~IsVisible(p, <<"c">>)

\* The example tree has been scanned: under the query "C" the file c.txt
\* and the directory sub above it are visible, a.txt and b.txt are not.
C4_Witness ==
    /\ fs = ExampleFS
    /\ call.op = "select_folder"
    /\ \E p \in ItemsOf(5) : Len(p) = 4 /\ IsVisible(p, <<"C">>)
    /\ \E p \in ItemsOf(2) : IsVisible(p, <<"C">>)
    /\ \E p \in ItemsOf(3) : ~IsVisible(p, <<"C">>)
    /\ \E p \in ItemsOf(4) : ~IsVisible(p, <<"C">>)

\* C5: visibility is upward closed: under every query, every item above a
\* visible item is visible.
C5_VisibilityUpwardClosed ==
    call.op = "select_folder"
    => \A q \in ProbeQueries : \A p \in DOMAIN items :
          IsVisible(p, q) => \A a \in Ancestors(items, p) : IsVisible(a, q)

\* A scanned tree in which a query matches an item three levels below the
\* root item and none of the items above it, which are visible all the
\* same, while another item is not.
C5_Witness ==
    /\ call.op = "select_folder"
    /\ \E q \in ProbeQueries \ {<<>>} : \E p \in DOMAIN items :
          /\ Len(p) = 4
          /\ ContainsIgnoringCase(items[p].text, q)
          /\ \A a \in Ancestors(items, p) :
                /\ ~ContainsIgnoringCase(items[a].text, q)
                /\ IsVisible(a, q)
          /\ \E o \in DOMAIN items : ~IsVisible(o, q)

\* C6: every line of the output comes from an item that is checkable,
\* checked and accepted by the current filter.
C6_OnlyCheckedVisibleEmitted ==
    call.op = "copy_tree_to_clipboard"
    => \A p \in Emitted :
          /\ p \in DOMAIN items
          /\ items[p].checkable
          /\ items[p].checked
          /\ InProxy(items, filter_text, p)

\* A copy that gave lines while the model held an unchecked item, an error
\* item and an item hidden by the filter.
C6_Witness ==
    /\ call.op = "copy_tree_to_clipboard"
    /\ text_lines # <<>>
    /\ \E p \in DOMAIN items : items[p].checkable /\ ~items[p].checked
    /\ \E p \in DOMAIN items : ~items[p].checkable
    /\ \E p \in DOMAIN items : ~InProxy(items, filter_text, p)

\* The connector of the line of item p: the three characters after the
\* prefix, which has three characters for every level above p.
ConnectorOf(i) ==
    LET p == text_lines[i].item
    IN  SubSeq(text_lines[i].line, 3 * (Len(p) - 1) + 1, 3 * Len(p))

\* The part of the prefix of line i that the ancestor at level k added.
PrefixPart(i, k) == SubSeq(text_lines[i].line, 3 * (k - 1) + 1, 3 * k)

\* The place of the line of the emitted item p in the output.
LineOf(p) == CHOOSE i \in 1..Len(text_lines) : text_lines[i].item = p

\* A sibling of p gave a line further down in the output.
LaterSiblingEmitted(p) ==
    \E q \in Emitted :
        /\ Len(q) = Len(p)
        /\ SubSeq(q, 1, Len(q) - 1) = SubSeq(p, 1, Len(p) - 1)
        /\ LineOf(q) > LineOf(p)

\* C7: an emitted item has the connector of a last sibling exactly when no
\* later sibling is emitted (unchecked and filtered-out siblings do not
\* count), and the prefix of the lines below it continues with blanks in
\* that case and with a vertical bar otherwise.
C7_LastAmongEmittedSiblings ==
    call.op = "copy_tree_to_clipboard"
    => \A i \in 1..Len(text_lines) :
          LET p == text_lines[i].item
          IN  /\ ConnectorOf(i) =
                    (IF LaterSiblingEmitted(p) THEN ConnectorMid
                     ELSE ConnectorLast)
              /\ \A j \in 1..Len(text_lines) :
                    (text_lines[j].item # p
                     /\ InSubtree(text_lines[j].item, p))
                    => PrefixPart(j, Len(p)) =
                          (IF LaterSiblingEmitted(p) THEN PrefixMid
                           ELSE PrefixLast)


\* The model with every checkable item checked.
CheckAll(model) ==
    [p \in DOMAIN model |->
        [model[p] EXCEPT !.checked = model[p].checkable]]

IsDirectoryItem(p) == items[p].kind \in {"entry_dir", "folder"}

\* C8: when a directory item d is unchecked in a fully checked tree, the
\* output has no line for d or for an item below d, and has exactly one
\* line for every other item that had a line before.
C8_UncheckedDirectoryLeavesOutput ==
    ( /\ call.op = "handle_item_changed"
      /\ call.all_checked
      /\ IsDirectoryItem(call.item)
      /\ ~items[call.item].checked )
    => \A after \in {TextLines(items, filter_text)} :
       \A before \in {TextLines(CheckAll(items), filter_text)} :
          /\ \A i \in 1..Len(after) : ~InSubtree(after[i].item, call.item)
          /\ \A i \in 1..Len(before) :
                ~InSubtree(before[i].item, call.item)
                => Cardinality({j \in 1..Len(after) :
                                  after[j].item = before[i].item}) = 1

\* The entry row of sub has just been unchecked in the fully checked tree of
\* top/ with a.txt, b.txt and sub/c.txt.
C8_Witness ==
    /\ call.op = "handle_item_changed"
    /\ call.all_checked
    /\ items[call.item].kind = "entry_dir"
    /\ items[call.item].of = 2
    /\ ~items[call.item].checked
    /\ filter_text = <<>>
    /\ \E p \in ItemsOf(5) : InSubtree(p, call.item) /\ items[p].checkable
    /\ ItemsOf(3) # {} /\ ItemsOf(4) # {}

\* The loop of line 420 has run over the entries of directory d of
\* filesystem f.
RECURSIVE Listed(_, _)
Listed(f, d) ==
    /\ f[d].present /\ SlotIsDir[d]
    /\ f[d].stat_ok /\ f[d].scandir = "ok"
    /\ \/ d = Root
       \/ f[d].entry_stat_ok /\ Listed(f, SlotParent[d])

\* os.scandir was called on the directory d of filesystem f and failed.
ListingFailed(f, d) ==
    /\ f[d].present /\ SlotIsDir[d]
    /\ f[d].stat_ok /\ f[d].scandir # "ok"
    /\ \/ d = Root
       \/ f[d].entry_stat_ok /\ Listed(f, SlotParent[d])

\* The rows directly under the item at p.
Rows(p) == {q \in DOMAIN items : Len(q) = Len(p) + 1 /\ InSubtree(q, p)}

\* The item at r is the row of entry t, and when t is a directory that can
\* be read, the item of t under it has a row for each entry of t.
EntryScanned(r, t) ==
    /\ items[r].of = t
    /\ (SlotIsDir[t] /\ fs[t].entry_stat_ok /\ fs[t].stat_ok
          /\ fs[t].scandir = "ok")
       => /\ r \o <<1>> \in DOMAIN items
          /\ items[r \o <<1>>].kind = "folder"
          /\ \A u \in Entries(fs, t) :
                \E c \in Rows(r \o <<1>>) : items[c].of = u

\* Every entry beside s in its directory has its row under the item at
\* parent, with its own contents scanned.
SiblingsScanned(parent, s) ==
    \A t \in Entries(fs, SlotParent[s]) \ {s} :
        \E r \in Rows(parent) : EntryScanned(r, t)

\* C9: when os.scandir fails on a directory below the root, the item of the
\* directory stays in the tree and checkable, its only row is one
\* non-checkable error marker, and the entries beside the directory are
\* scanned all the same.
C9_UnreadableDirectoryGetsOneMarker ==
    call.op = "select_folder"
    => \A d \in Slots \ {Root} :
          ListingFailed(fs, d)
          => \E p \in DOMAIN items :
                /\ items[p].kind = "folder" /\ items[p].of = d
                /\ items[p].checkable
                /\ Rows(p) = {p \o <<1>>}
                /\ items[p \o <<1>>].kind =
                      (IF fs[d].scandir = "PermissionError"
                       THEN "perm_denied" ELSE "scan_error")
                /\ ~items[p \o <<1>>].checkable
                /\ Rows(p \o <<1>>) = {}
                \* the entry row that holds the item
                /\ LET e == SubSeq(p, 1, Len(p) - 1)
                   IN  /\ items[e].kind = "entry_dir" /\ items[e].of = d
                       /\ items[e].checkable
                       /\ SiblingsScanned(SubSeq(e, 1, Len(e) - 1), d)

\* The scan met permission denied on sub/, which holds c.txt and stands
\* beside the directory Zed/, which holds E.c, and the file a.txt.
C9_Witness ==
    /\ call.op = "select_folder"
    /\ fs[2].present /\ fs[5].present /\ fs[6].present /\ fs[3].present
    /\ \E p \in ItemsOf(7) : Len(p) = 4
    /\ fs[2].scandir = "PermissionError"
    /\ ListingFailed(fs, 2)
    /\ \E p \in DOMAIN items : items[p].kind = "perm_denied"

\* The paths of the filesystem directly below the path s.
Below(s) == {t \in Slots : t # s /\ SlotParent[t] = s}

\* The scan tried to read the metadata of the entry s and failed: in
\* entry.stat() of the loop, or in os.stat() of the recursive call.
StatFailed(f, s) ==
    /\ f[s].present
    /\ Listed(f, SlotParent[s])
    /\ \/ ~f[s].entry_stat_ok
       \/ SlotIsDir[s] /\ ~f[s].stat_ok

\* C10: when the metadata of an entry below the root cannot be read, the
\* scan still succeeds, the entry has an error item without rows, nothing
\* below the entry is in the tree, and the entries beside it are scanned.
C10_StatFailureIsLocal ==
    call.op = "select_folder"
    => \A s \in Slots \ {Root} :
          StatFailed(fs, s)
          => /\ call.success
             /\ \E p \in ItemsOf(s) :
                   /\ items[p].kind =
                         (IF ~fs[s].entry_stat_ok THEN "os_error"
                          ELSE "access_error")
                   /\ ~items[p].checkable
                   /\ Rows(p) = {}
             /\ \A t \in Below(s) : ItemsOf(t) = {}
             /\ \E parent \in ItemsOf(SlotParent[s]) :
                   /\ items[parent].kind = "folder"
                   /\ \E r \in Rows(parent) : items[r].of = s
                   /\ SiblingsScanned(parent, s)

\* The scan could not read the metadata of sub/, which holds c.txt and
\* sorts before the entries Zed/, a.txt and b.txt beside it.
C10_Witness ==
    /\ call.op = "select_folder"
    /\ StatFailed(fs, 2)
    /\ fs[5].present /\ fs[6].present /\ fs[3].present /\ fs[4].present
    /\ ItemsOf(6) # {} /\ ItemsOf(4) # {}
    /\ \E p \in ItemsOf(7) : Len(p) = 4

\* C11: a change of the check box of an item n changes nothing outside the
\* subtree of n: the model keeps its items, and every item that is neither
\* n nor below n (the parent of n, the items above it, its siblings) keeps
\* its check state and everything else.
C11_PropagationDownwardOnly ==
    [][ (call.op = "idle" /\ call'.op = "handle_item_changed")
        => /\ DOMAIN items' = DOMAIN items
           /\ \A p \in DOMAIN items :
                 ~InSubtree(p, call'.item) => items'[p] = items[p] ]_vars

\* An item below the root item has just been unchecked and the cascade has
\* unchecked items below it, while its parent and a sibling are checked.
C11_Witness ==
    /\ call.op = "handle_item_changed"
    /\ Len(call.item) >= 2
    /\ ~items[call.item].checked
    /\ call.changes >= 1
    /\ items[SubSeq(call.item, 1, Len(call.item) - 1)].checked
    /\ \E q \in Rows(SubSeq(call.item, 1, Len(call.item) - 1)) :
          q # call.item /\ items[q].checked

\* C12: an item gives a line only if every item above it gives a line: an
\* unchecked item hides everything below it, so an item checked again
\* below an item that is still unchecked gives no line.
C12_EmittedOnlyBelowEmitted ==
    call.op = "copy_tree_to_clipboard"
    => /\ \A p \in Emitted : \A a \in Ancestors(items, p) : a \in Emitted
       /\ \A p \in DOMAIN items :
             (\E a \in Ancestors(items, p) : ~items[a].checked)
             => p \notin Emitted

\* A copy that gave lines while a checked item, which the filter accepts,
\* stood below an unchecked item and above another checked item.
C12_Witness ==
    /\ call.op = "copy_tree_to_clipboard"
    /\ text_lines # <<>>
    /\ \E p \in DOMAIN items :
          /\ items[p].checkable /\ items[p].checked
          /\ InProxy(items, filter_text, p)
          /\ \E a \in Ancestors(items, p) :
                items[a].checkable /\ ~items[a].checked
          /\ \E d \in Descendants(items, p) :
                items[d].checked /\ InProxy(items, filter_text, d)

\* C13: in a scanned tree no two items carry the same full path, so that
\* a directory under the root, like every other entry, has one item.
C13_FullPathUnique ==
    call.op = "select_folder"
    => \A p \in DOMAIN items : \A q \in DOMAIN items :
          (p # q /\ items[p].full_path # NoPath)
          => items[p].full_path # items[q].full_path

\* The item at a is a directory of the filesystem, whatever the scan could
\* read of it.
IsDirectoryNode(a) == SlotIsDir[items[a].of]

\* The rows a and b under one item are in the order of the children:
\* directories before the others, and by name without letter case inside
\* each group.
ChildrenOrder(a, b) ==
    \/ IsDirectoryNode(a) /\ ~IsDirectoryNode(b)
    \/ /\ IsDirectoryNode(a) = IsDirectoryNode(b)
       /\ StrLess(Lower(SlotName[items[a].of]), Lower(SlotName[items[b].of]))

\* The item at a comes before the item at b in the pre-order walk of the
\* model that takes the children of every item in their row order.
PreOrderBefore(a, b) ==
    \/ a # b /\ InSubtree(b, a)
    \/ \E k \in 1..Len(a) :
          /\ k <= Len(b)
          /\ SubSeq(a, 1, k - 1) = SubSeq(b, 1, k - 1)
          /\ a[k] < b[k]

\* C14: in every state the rows under each item stand with all directories
\* before all other entries and by case-insensitive name inside each group,
\* and the lines of a copy follow the pre-order walk of the model in that
\* order of the children.
C14_ChildrenOrderKeptAndFollowed ==
    /\ \A a \in DOMAIN items : \A b \in DOMAIN items :
          ( /\ Len(a) = Len(b)
            /\ SubSeq(a, 1, Len(a) - 1) = SubSeq(b, 1, Len(b) - 1)
            /\ a[Len(a)] < b[Len(b)] )
          => ChildrenOrder(a, b)
    /\ call.op = "copy_tree_to_clipboard"
       => \A i \in 1..Len(text_lines) : \A j \in 1..Len(text_lines) :
             i < j => PreOrderBefore(text_lines[i].item, text_lines[j].item)

\* C15: a change of a check box by the user starts one cascade when the
\* item has rows and none otherwise; every notification that a state
\* change of the cascade raises returns at the test of the flag, so no
\* second cascade starts; and when the slot has returned, whether the
\* cascade ended or raised, the flag is false, so that the next change by
\* the user is cascaded in its turn.
C15_CascadeSuppressesItsNotifications ==
    /\ ~block_item_changed_signal
    /\ call.op = "handle_item_changed"
       => /\ call.cascades = (IF HasChildren(items, call.item) THEN 1 ELSE 0)
          /\ call.suppressed = call.changes

\* The root item of a fully checked tree has just been unchecked; the
\* cascade unchecked its first row, which has rows of its own, the
\* notification of that change was suppressed, and the next setCheckState
\* raised, leaving the row below still checked.
C15_Witness ==
    /\ call.op = "handle_item_changed"
    /\ call.item = <<1>>
    /\ call.all_checked
    /\ call.raised
    /\ call.suppressed = 1
    /\ call.cascades = 1
    /\ ~items[<<1, 1>>].checked
    /\ HasChildren(items, <<1, 1>>)
    /\ items[<<1, 1, 1>>].checked
    /\ ~block_item_changed_signal

\* The item at p is an error item: the item of a folder whose os.stat
\* failed, the item of an entry whose stat failed, or the marker of a
\* listing that failed.
IsErrorItem(p) ==
    items[p].kind \in {"access_error", "os_error", "perm_denied", "scan_error"}

\* C16: in every state, whatever scans and changes of check boxes came
\* before, an error item is not checkable, is not checked and has no rows.
C16_ErrorItemsInert ==
    \A p \in DOMAIN items :
        IsErrorItem(p)
        => /\ ~items[p].checkable
           /\ ~items[p].checked
           /\ Rows(p) = {}

\* An item has just been checked again and the cascade, which ran to its
\* end, has checked items below it, among which stands an error item.
C16_Witness ==
    /\ call.op = "handle_item_changed"
    /\ items[call.item].checked
    /\ ~call.raised
    /\ call.changes >= 1
    /\ \E p \in Descendants(items, call.item) : IsErrorItem(p)

====
